---- MODULE Spec2Model ----
(***************************************************************************)
(* Model of miio/airfresh_t2017.py: the AirFreshT2017 device client.       *)
(* status() fetches the model's properties in chunks through the transport *)
(* (Device.send) and wraps them in an AirFreshStatus; the typed accessors  *)
(* of AirFreshStatus read its defaultdict; the commands send one request.  *)
(***************************************************************************)
EXTENDS Integers, Sequences, FiniteSets, TLC

VARIABLES
    AVAILABLE_PROPERTIES, \* the module-level table: model -> list of names
    model,                \* self.model of every AirFreshT2017 object
    device,               \* the property values the physical device reports
    frame,                \* the locals of the status() call in progress
    op,                   \* the operation invoked last and what it did
    snapshot              \* AirFreshStatus.data of the snapshot returned last

vars == <<AVAILABLE_PROPERTIES, model, device, frame, op, snapshot>>

-----------------------------------------------------------------------------
(* Bounds of the model. *)

\* Longest property list the chunking specification draws.
MaxProps == 31
\* A get_prop reply may miss up to MaxShort trailing values ...
MaxShort == 1
\* ... or carry up to MaxExtra values more than names were asked for.
MaxExtra == 1

-----------------------------------------------------------------------------
(* Python values, as records of one shape so that any two compare. *)

PyValue(k, b, n, s) == [kind |-> k, b |-> b, n |-> n, s |-> s]
PyNone == PyValue("none", FALSE, 0, "")
PyBool(b) == PyValue("bool", b, 0, "")
PyInt(n) == PyValue("int", FALSE, n, "")
PyStr(s) == PyValue("str", FALSE, 0, s)
\* A member of an enum class, e.g. OperationMode.Favorite.
Member(cls, name) == PyValue(cls, FALSE, 0, name)
\* The object status() returns; its data is the variable snapshot.
StatusObject == PyValue("AirFreshStatus", FALSE, 0, "")
\* The dict __json__ returns; its content is the variable snapshot.
DataObject == PyValue("dict", FALSE, 0, "")
\* No value: the operation is running or has raised.
NoValue == PyValue("nothing", FALSE, 0, "")

\* bool(v) of Python.
Truthy(v) ==
    CASE v.kind = "none" -> FALSE
      [] v.kind = "bool" -> v.b
      [] v.kind = "int" -> v.n # 0
      [] v.kind = "str" -> v.s # ""
      [] OTHER -> TRUE

Min(a, b) == IF a <= b THEN a ELSE b

\* s[:n] and s[n:] of Python, n >= 0.
Take(s, n) == SubSeq(s, 1, Min(n, Len(s)))
Drop(s, n) == SubSeq(s, Min(n, Len(s)) + 1, Len(s))

-----------------------------------------------------------------------------
(* The module-level constants. *)

MODEL_AIRFRESH_T2017 == "dmaker.airfresh.t2017"

T2017_PROPERTIES ==
    << "power", "mode", "pm25", "co2", "temperature_outside",
       "favourite_speed", "control_speed", "filter_intermediate",
       "filter_inter_day", "filter_efficient", "filter_effi_day",
       "ptc_on", "ptc_level", "ptc_status", "child_lock", "sound",
       "display", "screen_direction" >>

\* OperationMode with Favorite given the value of Auto.
OperationModeMembersAliased ==
    << <<"Off", "off">>, <<"Auto", "auto">>, <<"Sleep", "sleep">>,
       <<"Favorite", "auto">> >>

\* The enum classes: <<member name, value>> in definition order.
OperationModeMembers ==
    << <<"Off", "off">>, <<"Auto", "auto">>, <<"Sleep", "sleep">>,
       <<"Favorite", "favourite">> >>

PtcLevelMembers ==
    << <<"Off", "off">>, <<"Low", "low">>, <<"Medium", "medium">>,
       <<"High", "high">> >>

ScreenOrientationMembers ==
    << <<"Portrait", "forward">>, <<"LandscapeLeft", "left">>,
       <<"LandscapeRight", "right">> >>

EnumClasses == {"OperationMode", "PtcLevel", "ScreenOrientation"}

EnumMembers(cls) ==
    CASE cls = "OperationMode" -> OperationModeMembers
      [] cls = "PtcLevel" -> PtcLevelMembers
      [] cls = "ScreenOrientation" -> ScreenOrientationMembers

\* The members of cls as values.
MembersOf(cls) ==
    {Member(cls, EnumMembers(cls)[i][1]) : i \in DOMAIN EnumMembers(cls)}

\* m.value: the value the class definition gives the member named m.s.
EnumValue(m) ==
    LET tbl == EnumMembers(m.kind)
        i == CHOOSE j \in DOMAIN tbl : tbl[j][1] = m.s
    IN  tbl[i][2]

\* An exception of class exc leaving the operation.
Raised(exc) == PyValue("raise", FALSE, 0, exc)

\* cls(v): v itself when it is a member of cls, else the first member
\* defined with value v (a later member with the same value is an alias of
\* it); ValueError when there is none.

EnumCall(cls, v) ==
    LET tbl == EnumMembers(cls)
        hits == {j \in DOMAIN tbl : v.kind = "str" /\ tbl[j][2] = v.s}
    IN  IF v.kind = cls THEN v
        ELSE IF hits = {} THEN Raised("ValueError")
        ELSE Member(cls, tbl[CHOOSE j \in hits : \A h \in hits : j <= h][1])

-----------------------------------------------------------------------------
(* AVAILABLE_PROPERTIES and the property lists status() is exercised on. *)

\* Names that extend the table entry in the chunking specification.
EXTRA_PROPERTIES ==
    << "extra_19", "extra_20", "extra_21", "extra_22", "extra_23",
       "extra_24", "extra_25", "extra_26", "extra_27", "extra_28",
       "extra_29", "extra_30", "extra_31", "extra_32", "extra_33",
       "extra_34" >>

PropertyPool == T2017_PROPERTIES \o EXTRA_PROPERTIES

\* The table as the module defines it.
AvailableProperties == [m \in {MODEL_AIRFRESH_T2017} |-> T2017_PROPERTIES]

\* AirFreshT2017.__init__: self.model for the model argument given.
InitModel(arg) ==
    IF arg \in DOMAIN AvailableProperties THEN arg ELSE MODEL_AIRFRESH_T2017

Devices == {"dev1", "dev2"}
ModelArgs == {MODEL_AIRFRESH_T2017, "zhimi.airfresh.va2"}

-----------------------------------------------------------------------------
(* The transport, Device.send, and the device behind it. *)

DeviceConfigs == {"docstring", "second", "night", "standby", "unknown"}

\* What the device reports for each property of T2017_PROPERTIES, in order.
DeviceReport(cfg) ==
    CASE cfg = "docstring" ->
           << PyBool(TRUE), PyStr("favourite"), PyInt(1), PyInt(550),
              PyInt(24), PyInt(241), PyInt(241), PyInt(100), PyInt(90),
              PyInt(100), PyInt(180), PyBool(FALSE), PyStr("low"),
              PyBool(FALSE), PyBool(FALSE), PyBool(TRUE), PyBool(FALSE),
              PyStr("forward") >>
      [] cfg = "second" ->
           << PyBool(FALSE), PyStr("auto"), PyInt(12), PyInt(410),
              PyInt(0), PyInt(60), PyInt(120), PyInt(45), PyInt(200),
              PyInt(80), PyInt(75), PyBool(TRUE), PyStr("medium"),
              PyBool(TRUE), PyBool(TRUE), PyBool(FALSE), PyBool(TRUE),
              PyStr("left") >>
      [] cfg = "night" ->
           << PyBool(TRUE), PyStr("sleep"), PyInt(7), PyInt(480),
              PyInt(15), PyInt(90), PyInt(40), PyInt(70), PyInt(120),
              PyInt(65), PyInt(130), PyBool(TRUE), PyStr("high"),
              PyBool(TRUE), PyBool(FALSE), PyBool(FALSE), PyBool(TRUE),
              PyStr("right") >>
      [] cfg = "standby" ->
           << PyBool(FALSE), PyStr("off"), PyInt(20), PyInt(600),
              PyInt(22), PyInt(200), PyInt(0), PyInt(30), PyInt(250),
              PyInt(35), PyInt(260), PyBool(FALSE), PyStr("off"),
              PyBool(FALSE), PyBool(FALSE), PyBool(TRUE), PyBool(TRUE),
              PyStr("forward") >>
      [] cfg = "unknown" ->
           << PyBool(TRUE), PyStr("turbo"), PyInt(3), PyInt(700),
              PyInt(30), PyInt(150), PyInt(0), PyInt(10), PyInt(300),
              PyInt(5), PyInt(400), PyBool(TRUE), PyStr("max"),
              PyBool(FALSE), PyBool(TRUE), PyBool(TRUE), PyBool(FALSE),
              PyStr("backward") >>

\* The value the device holds for the name at position i of PropertyPool.
DeviceValue(cfg, name) ==
    LET i == CHOOSE j \in DOMAIN PropertyPool : PropertyPool[j] = name
    IN  IF i <= Len(T2017_PROPERTIES) THEN DeviceReport(cfg)[i]
        ELSE PyInt(1000 + i)

\* A value a reply carries beyond the names asked for.
Surplus == PyStr("surplus")

TransportErrors == {"DeviceException", "DeviceError"}
CommandAcks == { <<PyStr("ok")>>, <<PyInt(0)>> }

\* How the transport answers one call: raise error (when not ""), or
\* answer get_prop with delta values more (less) than names, or answer a
\* command with ack.
Answer(error, delta, ack) == [error |-> error, delta |-> delta, ack |-> ack]

Answers(method) ==
    {Answer(e, 0, <<>>) : e \in TransportErrors}
    \cup (IF method = "get_prop"
          THEN {Answer("", d, <<>>) : d \in (0 - MaxShort)..MaxExtra}
          ELSE {Answer("", 0, a) : a \in CommandAcks})

Reply(error, values) ==
    [raised |-> error # "", error |-> error, values |-> values]

\* Device.send(method, params) under answer how.
Send(method, params, how) ==
    IF how.error # "" THEN Reply(how.error, <<>>)
    ELSE IF method = "get_prop"
    THEN LET full == [i \in 1..Len(params) |-> DeviceValue(device, params[i])]
             n == Len(params) + how.delta
         IN  Reply("", IF n <= Len(params)
                       THEN Take(full, IF n < 0 THEN 0 ELSE n)
                       ELSE full \o [i \in 1..how.delta |-> Surplus])
    ELSE Reply("", how.ack)

Call(method, params) == [method |-> method, params |-> params]

-----------------------------------------------------------------------------
(* The record of the operation invoked last. *)

Op(kind, arg) ==
    [kind |-> kind, arg |-> arg, raw |-> NoValue, calls |-> <<>>,
     replies |-> <<>>, outcome |-> "running", error |-> "",
     result |-> NoValue, items |-> <<>>, logged |-> FALSE]

NoOp == [Op("none", NoValue) EXCEPT !.outcome = "returned"]

IdleFrame ==
    [pc |-> "idle", dev |-> "", ref |-> "", copy |-> <<>>, values |-> <<>>]

NoSnapshot == [has |-> FALSE, data |-> <<>>]

-----------------------------------------------------------------------------
(* status(): lines 278-301. *)

\* The number of names one get_prop request carries at most.
ChunkSize == 15

\* _props = properties: no copy, the same list object.
ListAlias(ref) == ref

\* list.copy(): the new list object _props names.
ListCopy(ref) == "copy"

\* Lists are objects named by references: "shared" is the list held by
\* AVAILABLE_PROPERTIES, "copy" the list made by properties.copy(), whose
\* content is frame.copy. The content of the list ref names:
ListOf(ref) ==
    IF ref = "shared" THEN AVAILABLE_PROPERTIES[model[frame.dev]]
    ELSE frame.copy

\* _props[:15], the names of one request.
Chunk(props) == Take(props, ChunkSize)

\* _props[14:]: the last name of the chunk is requested again.
NextPropsOverlap(props) == Drop(props, ChunkSize - 1)

\* _props[15:], what is left to request.
NextProps(props) == Drop(props, ChunkSize)

\* The loop body with the exception caught and the chunk tried again.
LoopBodyRetry(props, values, reply) ==
    IF reply.raised
    THEN [raised |-> FALSE, props |-> props, values |-> values]
    ELSE [raised |-> FALSE, props |-> NextProps(props),
          values |-> values \o reply.values]

\* values.extend(self.send("get_prop", _props[:15])); _props[:] = _props[15:]
\* with the transport's reply: an exception leaves the loop and the call.
LoopBody(props, values, reply) ==
    IF reply.raised
    THEN [raised |-> TRUE, props |-> props, values |-> values]
    ELSE [raised |-> FALSE, props |-> NextProps(props),
          values |-> values \o reply.values]

\* zip(properties, values): pairs up to the shorter of the two.
Zip(properties, values) ==
    [i \in 1..Min(Len(properties), Len(values)) |->
        <<properties[i], values[i]>>]

EmptyDict == [k \in {} |-> PyNone]

\* dict(pairs): a later pair replaces an earlier one with the same key.
RECURSIVE DictOf(_)
DictOf(pairs) ==
    IF pairs = <<>> THEN EmptyDict
    ELSE LET last == pairs[Len(pairs)]
         IN  (last[1] :> last[2]) @@ DictOf(SubSeq(pairs, 1, Len(pairs) - 1))

\* Lines 291-301: compare the counts, log a mismatch, build the snapshot.
Finish(properties, values) ==
    [logged |-> Len(properties) # Len(values),
     data |-> DictOf(Zip(properties, values))]

status(d) ==
    /\ frame.pc = "idle"
    /\ LET ref == ListCopy("shared")
       IN  frame' = [pc |-> "loop", dev |-> d, ref |-> ref,
                     copy |-> IF ref = "shared" THEN <<>>
                              ELSE AVAILABLE_PROPERTIES[model[d]],
                     values |-> <<>>]
    /\ op' = Op("status", NoValue)
    /\ UNCHANGED <<AVAILABLE_PROPERTIES, model, device, snapshot>>

\* One iteration of the while loop.
status_send ==
    /\ frame.pc = "loop"
    /\ ListOf(frame.ref) # <<>>
    /\ \E how \in Answers("get_prop") :
         LET props == ListOf(frame.ref)
             reply == Send("get_prop", Chunk(props), how)
             body == LoopBody(props, frame.values, reply)
             sent == [op EXCEPT
                        !.calls = Append(@, Call("get_prop", Chunk(props))),
                        !.replies = Append(@, reply)]
         IN  /\ IF frame.ref = "shared"
                THEN AVAILABLE_PROPERTIES' =
                       [AVAILABLE_PROPERTIES EXCEPT
                          ![model[frame.dev]] = body.props]
                ELSE UNCHANGED AVAILABLE_PROPERTIES
             /\ IF body.raised
                THEN /\ op' = [sent EXCEPT !.outcome = "raised",
                                           !.error = reply.error]
                     /\ frame' = IdleFrame
                ELSE /\ op' = sent
                     /\ frame' = [frame EXCEPT
                                    !.copy = IF frame.ref = "shared" THEN @
                                             ELSE body.props,
                                    !.values = body.values]
    /\ UNCHANGED <<model, device, snapshot>>

\* The loop has ended: lines 291-301.
status_return ==
    /\ frame.pc = "loop"
    /\ ListOf(frame.ref) = <<>>
    /\ LET fin == Finish(AVAILABLE_PROPERTIES[model[frame.dev]], frame.values)
       IN  /\ op' = [op EXCEPT !.outcome = "returned",
                                !.logged = fin.logged,
                                !.result = StatusObject]
           /\ snapshot' = [has |-> TRUE, data |-> fin.data]
    /\ frame' = IdleFrame
    /\ UNCHANGED <<AVAILABLE_PROPERTIES, model, device>>

-----------------------------------------------------------------------------
(* AirFreshStatus: lines 63-233. *)

\* self.data[key] on a plain dict: a missing key raises KeyError.
GetItemKeyError(data, key) ==
    IF key \in DOMAIN data
    THEN [raised |-> FALSE, data |-> data, value |-> data[key]]
    ELSE [raised |-> TRUE, data |-> data, value |-> PyNone]

\* self.data[key] on the defaultdict(lambda: None, ...): a missing key is
\* inserted with the default and the default is returned.
GetItem(data, key) ==
    IF key \in DOMAIN data
    THEN [raised |-> FALSE, data |-> data, value |-> data[key]]
    ELSE [raised |-> FALSE, data |-> (key :> PyNone) @@ data,
          value |-> PyNone]

\* The typed accessors: <<property name, key read, conversion>>.
Accessors ==
    << <<"power", "power", "onoff">>,
       <<"is_on", "power", "raw">>,
       <<"mode", "mode", "OperationMode">>,
       <<"pm25", "pm25", "raw">>,
       <<"co2", "co2", "raw">>,
       <<"temperature", "temperature_outside", "raw">>,
       <<"favorite_speed", "favourite_speed", "raw">>,
       <<"control_speed", "control_speed", "raw">>,
       <<"dust_filter_life_remaining", "filter_intermediate", "raw">>,
       <<"dust_filter_days_used", "filter_inter_day", "raw">>,
       <<"upper_filter_life_remaining", "filter_efficient", "raw">>,
       <<"upper_filter_days_used", "filter_effi_day", "raw">>,
       <<"ptc", "ptc_on", "raw">>,
       <<"ptc_level", "ptc_level", "PtcLevel">>,
       <<"ptc_status", "ptc_status", "raw">>,
       <<"child_lock", "child_lock", "raw">>,
       <<"buzzer", "sound", "raw">>,
       <<"display", "display", "raw">>,
       <<"screen_orientation", "screen_direction", "ScreenOrientation">> >>

\* What the accessor with conversion conv makes of the value read.
Convert(conv, raw) ==
    CASE conv = "raw" -> raw
      [] conv = "onoff" -> IF Truthy(raw) THEN PyStr("on") ELSE PyStr("off")
      [] OTHER -> EnumCall(conv, raw)

\* Keys a caller looks up in the data directly.
LookupKeys == {T2017_PROPERTIES[i] : i \in DOMAIN T2017_PROPERTIES}
              \cup {"humidity"}

\* The outcome of reading self.data[key] and converting it with conv.
Read(kind, name, key, conv) ==
    LET got == GetItem(snapshot.data, key)
        res == IF got.raised THEN Raised("KeyError")
               ELSE Convert(conv, got.value)
    IN  /\ frame.pc = "idle"
        /\ snapshot.has
        /\ snapshot' = [snapshot EXCEPT !.data = got.data]
        /\ op' = [Op(kind, PyStr(name)) EXCEPT
                    !.raw = got.value,
                    !.outcome = IF res.kind = "raise" THEN "raised"
                                ELSE "returned",
                    !.error = IF res.kind = "raise" THEN res.s ELSE "",
                    !.result = IF res.kind = "raise" THEN NoValue ELSE res]
        /\ UNCHANGED <<AVAILABLE_PROPERTIES, model, device, frame>>

\* One of the properties of lines 94-187.
accessor(i) == Read("read", Accessors[i][1], Accessors[i][2], Accessors[i][3])

\* status.data[key] by the caller.
lookup(key) == Read("lookup", key, key, "raw")

\* The accessors __repr__ formats, in the order of its argument tuple
\* (lines 210-227), as positions of Accessors: all but is_on.
ReprOrder == <<1, 3, 4, 5, 6, 7, 8, 9, 10, 11, 12, 13, 14, 15, 16, 17, 18, 19>>

\* The argument tuple of __repr__, evaluated left to right from its i-th
\* element on: every accessor reads the data (inserting a missing key) and
\* the first one that raises ends the evaluation.
RECURSIVE ReprArgs(_, _, _)
ReprArgs(data, i, items) ==
    IF i > Len(ReprOrder)
    THEN [raised |-> FALSE, error |-> "", data |-> data, items |-> items]
    ELSE LET a == Accessors[ReprOrder[i]]
             got == GetItem(data, a[2])
             res == IF got.raised THEN Raised("KeyError")
                    ELSE Convert(a[3], got.value)
         IN  IF res.kind = "raise"
             THEN [raised |-> TRUE, error |-> res.s, data |-> got.data,
                   items |-> items]
             ELSE ReprArgs(got.data, i + 1, Append(items, res))

\* str(v), as the %s conversion applies it.
PyToStr(v) ==
    CASE v.kind = "none" -> "None"
      [] v.kind = "bool" -> IF v.b THEN "True" ELSE "False"
      [] v.kind = "int" -> ToString(v.n)
      [] v.kind = "str" -> v.s
      [] OTHER -> v.kind \o "." \o v.s

\* The format string of lines 191-208, cut at its eighteen %s.
ReprPieces ==
    << "<AirFreshStatus power=", ", mode=", ", pm25=", ", co2=",
       ", temperature=", " °C, favorite_speed=", ", control_speed=",
       ", dust_filter_life_remaining=", ", dust_filter_days_used=",
       ", upper_filter_life_remaining=", ", upper_filter_days_used=",
       ", ptc=", ", ptc_level=", ", ptc_status=", ", child_lock=",
       ", buzzer=", ", display=", ", screen_orientation=", ">" >>

\* The format string % the first n values of items.
RECURSIVE ReprFormat(_, _)
ReprFormat(items, n) ==
    IF n = 0 THEN ""
    ELSE ReprFormat(items, n - 1) \o ReprPieces[n] \o PyToStr(items[n])

\* The str __repr__ returns for the argument tuple items.
ReprString(items) ==
    PyStr(ReprFormat(items, Len(items)) \o ReprPieces[Len(ReprPieces)])

\* __repr__ (lines 189-230): all accessors read in one call.
to_repr ==
    LET args == ReprArgs(snapshot.data, 1, <<>>)
    IN  /\ frame.pc = "idle"
        /\ snapshot.has
        /\ snapshot' = [snapshot EXCEPT !.data = args.data]
        /\ op' = [Op("repr", NoValue) EXCEPT
                    !.outcome = IF args.raised THEN "raised" ELSE "returned",
                    !.error = args.error,
                    !.result = IF args.raised THEN NoValue
                                ELSE ReprString(args.items),
                    !.items = IF args.raised THEN <<>> ELSE args.items]
        /\ UNCHANGED <<AVAILABLE_PROPERTIES, model, device, frame>>

\* __json__: the data itself.
to_json ==
    /\ frame.pc = "idle"
    /\ snapshot.has
    /\ op' = [Op("json", NoValue) EXCEPT !.outcome = "returned",
                                         !.result = DataObject]
    /\ UNCHANGED <<AVAILABLE_PROPERTIES, model, device, frame, snapshot>>

-----------------------------------------------------------------------------
(* The commands: lines 303-368. *)

\* The list Device.send returns to a command; its content is op.items.
ListObject == PyValue("list", FALSE, 0, "")

\* return self.send(method, params)
Command(kind, arg, method, params) ==
    /\ frame.pc = "idle"
    /\ \E how \in Answers(method) :
         LET reply == Send(method, params, how)
         IN  op' = [Op(kind, arg) EXCEPT
                      !.calls = <<Call(method, params)>>,
                      !.replies = <<reply>>,
                      !.outcome = IF reply.raised THEN "raised"
                                  ELSE "returned",
                      !.error = reply.error,
                      !.result = IF reply.raised THEN NoValue
                                 ELSE ListObject,
                      !.items = reply.values]
    /\ UNCHANGED <<AVAILABLE_PROPERTIES, model, device, frame, snapshot>>

\* An operation that fails before it sends anything.
Fail(kind, arg, exc) ==
    /\ frame.pc = "idle"
    /\ op' = [Op(kind, arg) EXCEPT !.outcome = "raised", !.error = exc]
    /\ UNCHANGED <<AVAILABLE_PROPERTIES, model, device, frame, snapshot>>

\* The two branches exchanged.
OnOffInverted(flag) == IF Truthy(flag) THEN <<"off">> ELSE <<"on">>

\* "on" for a true argument, "off" for a false one (lines 329-332, 342-345,
\* 355-358).
OnOff(flag) == IF Truthy(flag) THEN <<"on">> ELSE <<"off">>

Flags == {PyBool(TRUE), PyBool(FALSE)}

\* What callers pass set_mode: members of the three enums, a str, None.
ModeArgs ==
    MembersOf("OperationMode")
    \cup {Member("PtcLevel", "Low"), Member("ScreenOrientation", "Portrait"),
          PyStr("auto"), PyNone}

\* Whether mode.value exists.
HasValue(mode) == mode.kind \in EnumClasses

on(d) == Command("on", NoValue, "set_power", <<"on">>)

off(d) == Command("off", NoValue, "set_power", <<"off">>)

set_mode(d, mode) ==
    IF HasValue(mode)
    THEN Command("set_mode", mode, "set_mode", <<EnumValue(mode)>>)
    ELSE Fail("set_mode", mode, "AttributeError")

set_display(d, display) ==
    Command("set_display", display, "set_display", OnOff(display))

set_buzzer(d, buzzer) ==
    Command("set_buzzer", buzzer, "set_sound", OnOff(buzzer))

set_child_lock(d, lock) ==
    Command("set_child_lock", lock, "set_child_lock", OnOff(lock))

reset_upper_filter(d) ==
    Command("reset_upper_filter", NoValue, "set_filter_reset", <<"efficient">>)

reset_dust_filter(d) ==
    Command("reset_dust_filter", NoValue, "set_filter_reset",
            <<"intermediate">>)

-----------------------------------------------------------------------------
(* The specifications. *)

InitRest ==
    /\ model \in {[d \in Devices |-> InitModel(args[d])] :
                    args \in [Devices -> ModelArgs]}
    /\ device \in DeviceConfigs
    /\ frame = IdleFrame
    /\ op = NoOp
    /\ snapshot = NoSnapshot

\* The module as loaded, every device object constructed.
Init ==
    /\ AVAILABLE_PROPERTIES = AvailableProperties
    /\ InitRest

\* The table entry drawn from the lists of 1 to MaxProps names.
InitChunk ==
    /\ AVAILABLE_PROPERTIES \in
         {[m \in {MODEL_AIRFRESH_T2017} |-> Take(PropertyPool, n)] :
            n \in 1..MaxProps}
    /\ InitRest
    /\ device \in {"docstring", "second"}

Next ==
    \/ \E d \in Devices : status(d)
    \/ status_send
    \/ status_return
    \/ \E i \in DOMAIN Accessors : accessor(i)
    \/ \E key \in LookupKeys : lookup(key)
    \/ to_json
    \/ to_repr
    \/ \E d \in Devices : on(d)
    \/ \E d \in Devices : off(d)
    \/ \E d \in Devices, mode \in ModeArgs : set_mode(d, mode)
    \/ \E d \in Devices, display \in Flags : set_display(d, display)
    \/ \E d \in Devices, buzzer \in Flags : set_buzzer(d, buzzer)
    \/ \E d \in Devices, lock \in Flags : set_child_lock(d, lock)
    \/ \E d \in Devices : reset_upper_filter(d)
    \/ \E d \in Devices : reset_dust_filter(d)

NextChunk ==
    \/ \E d \in Devices : status(d)
    \/ status_send
    \/ status_return

Spec == Init /\ [][Next]_vars

SpecChunk == InitChunk /\ [][NextChunk]_vars

-----------------------------------------------------------------------------
(* What the properties below are stated with. *)

\* The list status() reads: the table's only entry.
Props == AVAILABLE_PROPERTIES["dmaker.airfresh.t2017"]

PropNames == {Props[i] : i \in DOMAIN Props}

\* ceil(L / 15).
ExpectedCalls(L) == (L + 14) \div 15

\* The names at positions 15(k-1) .. min(15k, L)-1, counted from 0.
ExpectedChunk(list, k) ==
    SubSeq(list, 15 * (k - 1) + 1, Min(15 * k, Len(list)))

\* All values the transport returned to the operation, in call order.
RECURSIVE Received(_)
Received(replies) ==
    IF replies = <<>> THEN <<>>
    ELSE Received(SubSeq(replies, 1, Len(replies) - 1))
         \o replies[Len(replies)].values

\* Every call was answered with one value per name.
FullReplies ==
    \A k \in DOMAIN op.replies :
        /\ ~op.replies[k].raised
        /\ Len(op.replies[k].values) = Len(op.calls[k].params)

StatusDone == op.kind = "status" /\ op.outcome = "returned"

\* C1: status() on a list of L >= 1 names issues exactly ceil(L/15) get_prop
\* calls and then returns; call k carries the names 15(k-1) .. min(15k,L)-1
\* in order, never more than 15; when every call returns one value per name
\* the L values pair with the L names position by position.
C1_Chunking ==
    op.kind = "status" =>
        LET L == Len(Props)
            n == Len(op.calls)
        IN  /\ n <= ExpectedCalls(L)
            /\ \A k \in 1..n :
                 /\ op.calls[k] = Call("get_prop", ExpectedChunk(Props, k))
                 /\ Len(op.calls[k].params) <= 15
            /\ op.outcome = "running" => frame.pc = "loop"
            /\ op.outcome = "running" /\ n < ExpectedCalls(L)
                 => ENABLED status_send
            /\ op.outcome = "running" /\ n = ExpectedCalls(L)
                 => ~ENABLED status_send
            /\ op.outcome = "returned" => n = ExpectedCalls(L)
            /\ StatusDone /\ FullReplies =>
                 /\ Len(Received(op.replies)) = L
                 /\ snapshot.has
                 /\ DOMAIN snapshot.data = PropNames
                 /\ \A i \in 1..L :
                      snapshot.data[Props[i]] =
                        op.replies[((i - 1) \div 15) + 1]
                          .values[((i - 1) % 15) + 1]

C1_Witness ==
    /\ StatusDone
    /\ FullReplies
    /\ Len(Props) = 31
    /\ Len(op.calls) = 3
    /\ snapshot.data["extra_31"] = op.replies[3].values[1]

\* C2: a count mismatch never makes status() raise; the snapshot pairs the
\* V values received with the L names by position: name i < min(L, V) has
\* value i, a name at i >= V reads as None without raising, and values at
\* positions >= L are not in the snapshot.
C2_Mismatch ==
    op.kind = "status" /\ op.outcome # "running" =>
        LET L == Len(Props)
            vals == Received(op.replies)
            V == Len(vals)
        IN  /\ op.outcome = "raised" =>
                 op.replies # <<>> /\ op.replies[Len(op.replies)].raised
            /\ op.outcome = "returned" =>
                 /\ snapshot.has
                 /\ op.logged = (L # V)
                 /\ DOMAIN snapshot.data = {Props[i] : i \in 1..Min(L, V)}
                 /\ \A i \in 1..L :
                      LET got == GetItem(snapshot.data, Props[i])
                      IN  /\ ~got.raised
                          /\ got.value = IF i <= V THEN vals[i] ELSE PyNone

C2_Witness ==
    /\ StatusDone
    /\ Len(Received(op.replies)) < Len(Props)
    /\ op.logged
    /\ "screen_direction" \notin DOMAIN snapshot.data
    /\ snapshot.data["power"] = op.replies[1].values[1]

CommandKinds ==
    {"on", "off", "set_mode", "set_display", "set_buzzer", "set_child_lock",
     "reset_upper_filter", "reset_dust_filter"}

\* The wire values of the members, as the class definitions give them.
WireTable ==
    { <<"OperationMode", "Off", "off">>, <<"OperationMode", "Auto", "auto">>,
      <<"OperationMode", "Sleep", "sleep">>,
      <<"OperationMode", "Favorite", "favourite">>,
      <<"PtcLevel", "Off", "off">>, <<"PtcLevel", "Low", "low">>,
      <<"PtcLevel", "Medium", "medium">>, <<"PtcLevel", "High", "high">>,
      <<"ScreenOrientation", "Portrait", "forward">>,
      <<"ScreenOrientation", "LandscapeLeft", "left">>,
      <<"ScreenOrientation", "LandscapeRight", "right">> }

WireOf(m) == (CHOOSE e \in WireTable : e[1] = m.kind /\ e[2] = m.s)[3]

ExpectedCall(kind, arg) ==
    CASE kind = "on" -> Call("set_power", <<"on">>)
      [] kind = "off" -> Call("set_power", <<"off">>)
      [] kind = "set_mode" -> Call("set_mode", <<WireOf(arg)>>)
      [] kind = "set_display" ->
           Call("set_display", IF arg.b THEN <<"on">> ELSE <<"off">>)
      [] kind = "set_buzzer" ->
           Call("set_sound", IF arg.b THEN <<"on">> ELSE <<"off">>)
      [] kind = "set_child_lock" ->
           Call("set_child_lock", IF arg.b THEN <<"on">> ELSE <<"off">>)
      [] kind = "reset_upper_filter" ->
           Call("set_filter_reset", <<"efficient">>)
      [] kind = "reset_dust_filter" ->
           Call("set_filter_reset", <<"intermediate">>)

\* C3: every command issues exactly one transport call, with the method and
\* the argument list fixed for it, and returns what the transport returned.
C3_Commands ==
    (op.kind \in CommandKinds
       /\ (op.kind = "set_mode" => op.arg.kind = "OperationMode")) =>
        /\ op.calls = <<ExpectedCall(op.kind, op.arg)>>
        /\ Len(op.replies) = 1
        /\ op.outcome = "returned" =>
             /\ ~op.replies[1].raised
             /\ op.result = ListObject
             /\ op.items = op.replies[1].values

C3_Witness ==
    /\ op.kind = "set_mode"
    /\ op.arg = Member("OperationMode", "Auto")
    /\ op.outcome = "returned"
    /\ op.calls = <<Call("set_mode", <<"auto">>)>>
    /\ op.items = <<PyStr("ok")>>

\* C4: when a transport call raises, the operation ends there with that
\* error: the failed call is the operation's last one, no call is sent
\* twice, and nothing (no snapshot either) is returned.
C4_NoRetry ==
    /\ Len(op.calls) = Len(op.replies)
    /\ \A k \in DOMAIN op.replies :
         op.replies[k].raised =>
            /\ k = Len(op.replies)
            /\ op.outcome = "raised"
            /\ op.error = op.replies[k].error
            /\ op.result = NoValue
            /\ frame.pc = "idle"
    /\ op.kind = "status" =>
         \A j, k \in DOMAIN op.calls : j # k => op.calls[j] # op.calls[k]
    /\ op.kind \in CommandKinds => Len(op.calls) <= 1

C4_Witness ==
    /\ op.kind = "status"
    /\ Len(op.calls) = 2
    /\ ~op.replies[1].raised
    /\ op.replies[2].raised
    /\ op.error = "DeviceException"
    /\ op.outcome = "raised"

\* C5: set_mode with an argument that is no member of OperationMode fails
\* before any transport call is issued.
C5_SetModeRejects ==
    op.kind = "set_mode" /\ op.arg \notin MembersOf("OperationMode") =>
        /\ op.outcome = "raised"
        /\ op.calls = <<>>

ReadKinds == {"read", "lookup", "json", "repr"}

\* C6: no read of a snapshot (raw lookup, typed accessor, __repr__,
\* __json__) changes its mapping.
C6_ReadOnly == [][op'.kind \in ReadKinds => snapshot' = snapshot]_vars

\* The enum class an accessor decodes with.
DecodingAccessors ==
    { <<"mode", "OperationMode">>, <<"ptc_level", "PtcLevel">>,
      <<"screen_orientation", "ScreenOrientation">> }

\* Strings that are wire values of some member, and some of none.
TestWires ==
    {e[3] : e \in WireTable} \cup {"turbo", "max", "backward", "", "Auto"}

\* C7: decoding the wire value of a member of OperationMode, PtcLevel or
\* ScreenOrientation yields that member; decoding a string that is the wire
\* value of no member of the class fails (ValueError) and yields no member.
C7_RoundTrip ==
    /\ \A e \in WireTable :
         /\ EnumValue(Member(e[1], e[2])) = e[3]
         /\ EnumCall(e[1], PyStr(e[3])) = Member(e[1], e[2])
    /\ \A cls \in EnumClasses : \A w \in TestWires :
         (\A e \in WireTable : ~(e[1] = cls /\ e[3] = w))
            => EnumCall(cls, PyStr(w)) = Raised("ValueError")
    /\ \A a \in DecodingAccessors :
         op.kind = "read" /\ op.arg = PyStr(a[1]) /\ op.raw.kind = "str" =>
            IF \E e \in WireTable : e[1] = a[2] /\ e[3] = op.raw.s
            THEN /\ op.outcome = "returned"
                 /\ op.result.kind = a[2]
                 /\ WireOf(op.result) = op.raw.s
            ELSE /\ op.outcome = "raised"
                 /\ op.error = "ValueError"
                 /\ op.result = NoValue
    /\ op.kind = "set_mode" /\ op.arg.kind = "OperationMode"
         => EnumCall("OperationMode", PyStr(op.calls[1].params[1])) = op.arg

C7_Witness ==
    /\ op.kind = "read"
    /\ op.arg = PyStr("mode")
    /\ op.raw = PyStr("favourite")
    /\ op.result = Member("OperationMode", "Favorite")

\* C8: a typed accessor whose property was absent from the fetch yields the
\* unknown sentinel (None): it neither fails nor reports a concrete value.
C8_AbsentIsNone ==
    op.kind = "read" /\ op.raw = PyNone =>
        /\ op.outcome = "returned"
        /\ op.result = PyNone

\* C9: after a status fetch every name with a value in the snapshot has the
\* value at its own position in the reply to the call that carried the name,
\* whatever the number of values each call returned.
C9_Aligned ==
    StatusDone =>
        \A i \in 1..Len(Props) :
            Props[i] \in DOMAIN snapshot.data =>
                LET k == ((i - 1) \div 15) + 1
                    j == ((i - 1) % 15) + 1
                IN  /\ k <= Len(op.replies)
                    /\ j <= Len(op.replies[k].values)
                    /\ snapshot.data[Props[i]] = op.replies[k].values[j]

\* C10: status() never modifies the list of the table: it holds the same 18
\* names in the same order whatever was called before, so that every status
\* call requests the first 15 names and then, if that call succeeds, the
\* remaining 3.
C10_TableUnchanged ==
    /\ DOMAIN AVAILABLE_PROPERTIES = {"dmaker.airfresh.t2017"}
    /\ Props = T2017_PROPERTIES
    /\ Len(Props) = 18
    /\ op.kind = "status" =>
         /\ Len(op.calls) <= 2
         /\ Len(op.calls) >= 1 =>
              op.calls[1] = Call("get_prop", SubSeq(T2017_PROPERTIES, 1, 15))
         /\ Len(op.calls) = 2 =>
              /\ ~op.replies[1].raised
              /\ op.calls[2] =
                   Call("get_prop", <<"sound", "display", "screen_direction">>)
         /\ op.outcome = "running" /\ Len(op.calls) < 2 => ENABLED status_send
         /\ op.outcome = "returned" => Len(op.calls) = 2

C10_Witness ==
    /\ op.kind = "status"
    /\ op.outcome = "running"
    /\ Len(op.calls) = 2
    /\ snapshot.has
    /\ Cardinality(DOMAIN snapshot.data) # 18

====
